---- MODULE Spec2Model ----
(***************************************************************************)
(* A model of spotifytoytm.py: the chunk partitioner (chunks), the         *)
(* resolver (_video_id_for_track under @retry), the batch resolution       *)
(* engine (video_ids_for_tracks on a ThreadPoolExecutor) and the           *)
(* like-replicator (_like_song_youtube_music).                             *)
(*                                                                         *)
(* Each component has its own variables and its own specification; a       *)
(* specification holds the other components' variables at their idle      *)
(* values.                                                                 *)
(*   SpecChunks   - chunks(lst, n) applied to every bounded input          *)
(*   SpecResolver - one call of _video_id_for_track                        *)
(*   Spec         - one call of video_ids_for_tracks                       *)
(*   SpecLike     - one call of _like_song_youtube_music                   *)
(*   SpecLikeSongs, FairLikeSongs - one call of like_songs_youtube_music   *)
(*   SpecPlaylist - one call of _create_playlist_youtube_music             *)
(*   SpecExport   - one call of export_saved_tracks                        *)
(***************************************************************************)
EXTENDS Integers, Sequences, FiniteSets, TLC

VARIABLES
    \* chunks(lst, n)
    chunks_pc, lst, n, chunks_ret,
    \* _video_id_for_track(track) under @retry(delay=0.25, backoff=2, tries=20)
    res_pc,          \* "call", "returned", "raised"
    track,           \* the argument
    res_tries,       \* _tries of the retry wrapper
    res_delay,       \* _delay of the retry wrapper, in quarters of a second
    results,         \* what the last search that answered returned
    res_ret,         \* the value returned
    search_calls,    \* ytmusic.search calls made
    search_failed,   \* those of them that raised
    search_ok,       \* those of them that returned a result list
    \* _like_song_youtube_music(video_id)
    like_pc,         \* "baseline", "write", "reread", "done", "raised"
    video_id,        \* the argument
    changed, count, initial_track_count, track_count,
    get_tries,       \* _tries of the retry wrapper of _get_liked_songs_count
    get_delay,       \* its _delay, in quarters of a second
    rate_calls,      \* ytmusic.rate_song calls made
    rate_raised,     \* those of them that raised
    read_log,        \* the values _get_liked_songs_count returned, in order
    printed,         \* "LIKED" or "FAILED" once line 142 has printed
    \* video_ids_for_tracks(tracks)
    pc,              \* the caller's thread: "submit", "collect", "exiting",
                     \* "returned", "consumed", "raised"
    tracks,          \* the list of line 97
    video_id_for_track,  \* the dict of line 99
    threads,         \* the futures of line 107, in submission order
    success,         \* the list of line 113: the results of the futures
                     \* as_completed has yielded
    output,          \* what the returned generator yields
    overwritten,     \* a store replaced an identifier in the dict by another
    search_exhausted,    \* a search used up its retries in some chunk task
    retried,         \* a try of some resolution of a Track raised
    searches,        \* the ytmusic.search calls made, counted as long as no
                     \* try has raised (0 afterwards)
    started_after_failure,  \* a chunk task started after another had failed
    \* like_songs_youtube_music(video_ids)
    ls_pc,           \* "idle", "call", "running", "returned", "raised"
    video_ids,       \* the argument
    ls_next,         \* the place in video_ids of the run going on
    reported,        \* the runs that have ended: identifier and line printed
    \* _create_playlist_youtube_music(title, tracks) under
    \* @retry(delay=0.25, backoff=2, tries=5)
    pl_pc,           \* "idle", "call", "resolving", "returned", "raised"
    pl_tracks,       \* the argument tracks
    pl_tries,        \* _tries of the retry wrapper
    pl_delay,        \* _delay of the retry wrapper, in quarters of a second
    resolutions,     \* video_ids_for_tracks calls made
    create_calls,    \* ytmusic.create_playlist calls made
    created_with,    \* the video_ids of the last of them
    \* export_saved_tracks()
    ex_pc,           \* "idle", "call", "resolving", "liking", "returned",
                     \* "raised"
    saved            \* the saved tracks as list_spotify_saved_tracks yields
                     \* them

chunksVars == <<chunks_pc, lst, n, chunks_ret>>
resVars == <<res_pc, track, res_tries, res_delay, results, res_ret,
             search_calls, search_failed, search_ok>>
likeVars == <<like_pc, video_id, changed, count, initial_track_count,
              track_count, get_tries, get_delay, rate_calls, rate_raised,
              read_log, printed>>
batchVars == <<pc, tracks, video_id_for_track, threads, success, output, overwritten,
               search_exhausted, retried, searches, started_after_failure>>
lsVars == <<ls_pc, video_ids, ls_next, reported>>
plVars == <<pl_pc, pl_tracks, pl_tries, pl_delay, resolutions, create_calls,
            created_with>>
exVars == <<ex_pc, saved>>
callVars == <<lsVars, plVars, exVars>>
vars == <<chunksVars, resVars, likeVars, batchVars, callVars>>

(***************************************************************************)
(* Python values.  A value that can meet a value of another class in the   *)
(* same place is a record carrying its class, as a Python object does.     *)
(***************************************************************************)
\* Track = namedtuple("Track", ["title", "artist", "album"])
MkTrack(t, ar, al) == [cls |-> "Track", title |-> t, artist |-> ar, album |-> al]
PyStr(s) == [cls |-> "str", s |-> s]
PyList(items) == [cls |-> "list", items |-> items]
None == "None"

\* The tracks the model draws its inputs from.
TrackA == MkTrack("songA", "artistA", "albumA")
TrackB == MkTrack("songB", "artistB", "albumB")
TrackSet == {TrackA, TrackB}

Min(a, b) == IF a < b THEN a ELSE b

\* All sequences over S of length 0..k.
SeqsUpTo(S, k) == UNION {[1..m -> S] : m \in 0..k}

\* Python's lst[lo:hi] for 0 <= lo (indices from 0, hi clipped to len(lst)).
Slice(s, lo, hi) == SubSeq(s, lo + 1, Min(hi, Len(s)))

(***************************************************************************)
(* chunks(lst, n), lines 24-32.                                            *)
(***************************************************************************)
\* for i in range(0, len(lst), chunk_size): chunks.append(lst[i : i + chunk_size])
RECURSIVE chunks_loop(_, _, _, _)
chunks_loop(l, chunk_size, i, acc) ==
    IF i >= Len(l) THEN acc
    ELSE chunks_loop(l, chunk_size, i + chunk_size,
                     Append(acc, PyList(Slice(l, i, i + chunk_size))))

\* A mutant of chunks: one slice per worker, for i in range(n), so that the
\* elements after the n-th slice are dropped.
chunks_one_per_worker(l, k) ==
    IF Len(l) < k THEN l
    ELSE [c \in 1..k |->
            PyList(Slice(l, (c - 1) * (Len(l) \div k), c * (Len(l) \div k)))]

\* The list itself when it is shorter than n (a list of Tracks, not a list
\* of lists), else the slices of length len(lst) // n.
chunks(l, k) ==
    IF Len(l) < k THEN l
    ELSE chunks_loop(l, Len(l) \div k, 0, << >>)

\* Bounds of the partitioner's inputs.
MaxLst == 5
MaxN == 4

ChunksInit ==
    /\ chunks_pc = "call"
    /\ lst \in SeqsUpTo(TrackSet, MaxLst)
    /\ n \in 1..MaxN
    /\ chunks_ret = << >>

ChunksIdle ==
    /\ chunks_pc = "idle"
    /\ lst = << >>
    /\ n = 1
    /\ chunks_ret = << >>

ChunksCall ==
    /\ chunks_pc = "call"
    /\ chunks_ret' = chunks(lst, n)
    /\ chunks_pc' = "done"
    /\ UNCHANGED <<lst, n>>

(***************************************************************************)
(* _video_id_for_track, lines 57-62.                                       *)
(***************************************************************************)
\* @retry(..., tries=20) on _video_id_for_track and on _get_liked_songs_count
RETRY_TRIES == 20
\* @retry(delay=0.25, ...), in quarters of a second, and backoff=2
RETRY_DELAY == 1
RETRY_BACKOFF == 2

\* The longest result list a search of the model answers.
MaxResults == 2

\* One search result: a dict that has a "videoId" entry or has none; the entry
\* is a non-empty string, the empty string or None.
VideoIdValues == {"abc", "xyz", "", None}
SearchResults ==
    [has : {TRUE}, videoId : VideoIdValues] \cup [has : {FALSE}, videoId : {None}]

\* What one call of ytmusic.search does: raise, or return a list of results.
SearchAnswers ==
    [raises : {TRUE}, results : {<< >>}]
        \cup [raises : {FALSE}, results : SeqsUpTo(SearchResults, MaxResults)]

\* Python's truth value of a videoId: None and "" are false.
Truthy(v) == v # None /\ v # ""

Returned(v) == [raised |-> FALSE, value |-> v]
Raised(e) == [raised |-> TRUE, value |-> e]

\* for result in results: if result["videoId"]: return result["videoId"]
\* result["videoId"] raises KeyError on a result without the entry; falling off
\* the loop returns None.
RECURSIVE select_video_id(_)
select_video_id(rs) ==
    IF rs = << >> THEN Returned(None)
    ELSE IF ~Head(rs).has THEN Raised("KeyError")
    ELSE IF Truthy(Head(rs).videoId) THEN Returned(Head(rs).videoId)
    ELSE select_video_id(Tail(rs))

\* One execution of the body for the argument t when the search, if it is
\* reached, answers a.  The query f"{track.title} {track.artist}" is built
\* before the call: an argument without these attributes raises AttributeError
\* and no search is made.
video_id_body(t, a) ==
    IF t.cls # "Track" THEN Raised("AttributeError")
    ELSE IF a.raises THEN Raised("SearchError")
    ELSE select_video_id(a.results)

\* A mutant of the retry wrapper's test: it gives up when one try is left.
retry_gives_up_early(tries) == tries - 1 <= 1

\* The retry wrapper after an exception: _tries -= 1; if not _tries: raise.
retry_gives_up(tries) == tries - 1 = 0

ResolverInit ==
    /\ res_pc = "call"
    /\ track \in TrackSet \cup {PyStr("songA")}
    /\ res_tries = RETRY_TRIES
    /\ res_delay = RETRY_DELAY
    /\ results = << >>
    /\ res_ret = None
    /\ search_calls = 0
    /\ search_failed = 0
    /\ search_ok = 0

ResolverIdle ==
    /\ res_pc = "idle"
    /\ track = TrackA
    /\ res_tries = RETRY_TRIES
    /\ res_delay = RETRY_DELAY
    /\ results = << >>
    /\ res_ret = None
    /\ search_calls = 0
    /\ search_failed = 0
    /\ search_ok = 0

\* One try of the wrapped function: the body runs once; a return value leaves
\* the wrapper, an exception (of any class) costs a try and either leaves the
\* wrapper when none is left or sleeps _delay and doubles it.
ResolverAttempt ==
    /\ res_pc = "call"
    /\ \E a \in SearchAnswers :
          LET out == video_id_body(track, a)
              searched == track.cls = "Track"
          IN  /\ search_calls' = IF searched THEN search_calls + 1 ELSE search_calls
              /\ search_failed' = IF searched /\ a.raises THEN search_failed + 1
                                  ELSE search_failed
              /\ search_ok' = IF searched /\ ~a.raises THEN search_ok + 1
                              ELSE search_ok
              /\ results' = IF searched /\ ~a.raises THEN a.results ELSE results
              /\ IF ~out.raised
                 THEN /\ res_pc' = "returned"
                      /\ res_ret' = out.value
                      /\ UNCHANGED <<res_tries, res_delay>>
                 ELSE /\ res_tries' = res_tries - 1
                      /\ res_pc' = IF retry_gives_up(res_tries) THEN "raised" ELSE "call"
                      /\ res_delay' = IF retry_gives_up(res_tries) THEN res_delay
                                      ELSE res_delay * RETRY_BACKOFF
                      /\ UNCHANGED res_ret
    /\ UNCHANGED track

(***************************************************************************)
(* _like_song_youtube_music and _get_liked_songs_count, lines 123-142.     *)
(***************************************************************************)
\* max_retries = 5
max_retries == 5

\* The values the liked-songs counter is read as.
CounterValues == {10, 11}

\* What one call of ytmusic.get_liked_songs(limit=5)["trackCount"] does.
CountAnswers ==
    [raises : {TRUE}, value : {0}] \cup [raises : {FALSE}, value : CounterValues]

\* A mutant of while_continues: count <= max_retries.
while_continues_once_more(ch, c) == ~ch /\ c <= max_retries

\* while not changed and count < max_retries
while_continues(ch, c) == ~ch /\ c < max_retries

\* A mutant of count_changed: only a counter that grew counts as a change.
count_grew(tc, initial) == tc > initial

\* changed = track_count != initial_track_count
count_changed(tc, initial) == tc # initial

\* A mutant of after_rate_song: the exception of rate_song is not caught.
after_rate_song_uncaught(raised) == IF raised THEN "raised" ELSE "reread"

\* try: rate_song(...) except Exception: print(...): the statement after the
\* try statement is reached whether rate_song raised or not.
after_rate_song(raised) == "reread"

\* print(f"LIKED ...") if changed else print(f"FAILED TO LIKE ...")
report(ch) == IF ch THEN "LIKED" ELSE "FAILED"

LikeInit ==
    /\ like_pc = "baseline"
    /\ video_id \in {"abc", None}
    /\ changed = FALSE
    /\ count = 0
    /\ initial_track_count = 0
    /\ track_count = 0
    /\ get_tries = RETRY_TRIES
    /\ get_delay = RETRY_DELAY
    /\ rate_calls = 0
    /\ rate_raised = 0
    /\ read_log = << >>
    /\ printed = ""

LikeIdle ==
    /\ like_pc = "idle"
    /\ video_id = None
    /\ changed = FALSE
    /\ count = 0
    /\ initial_track_count = 0
    /\ track_count = 0
    /\ get_tries = RETRY_TRIES
    /\ get_delay = RETRY_DELAY
    /\ rate_calls = 0
    /\ rate_raised = 0
    /\ read_log = << >>
    /\ printed = ""

\* A try of _get_liked_songs_count that raised: it costs a try, and the
\* exception leaves _like_song_youtube_music when none is left.
GetCountRaises ==
    /\ get_tries' = get_tries - 1
    /\ like_pc' = IF retry_gives_up(get_tries) THEN "raised" ELSE like_pc
    /\ get_delay' = IF retry_gives_up(get_tries) THEN get_delay
                    ELSE get_delay * RETRY_BACKOFF
    /\ UNCHANGED <<video_id, changed, count, initial_track_count, track_count,
                   rate_calls, rate_raised, read_log, printed>>

\* The position after the while test of line 133, and what line 142 prints
\* when the loop is left.
LoopTest(ch, c) ==
    /\ like_pc' = IF while_continues(ch, c) THEN "write" ELSE "done"
    /\ printed' = IF while_continues(ch, c) THEN printed ELSE report(ch)

\* initial_track_count = self._get_liked_songs_count(), one try of it.
LikeReadBaseline ==
    /\ like_pc = "baseline"
    /\ \E a \in CountAnswers :
          IF a.raises THEN GetCountRaises
          ELSE /\ initial_track_count' = a.value
               /\ read_log' = Append(read_log, a.value)
               /\ get_tries' = RETRY_TRIES
               /\ get_delay' = RETRY_DELAY
               /\ LoopTest(changed, count)
               /\ UNCHANGED <<video_id, changed, count, track_count, rate_calls,
                              rate_raised>>

\* self.ytmusic.rate_song(videoId=video_id, rating="LIKE") inside try/except.
LikeRateSong ==
    /\ like_pc = "write"
    /\ \E raised \in BOOLEAN :
          /\ rate_calls' = rate_calls + 1
          /\ rate_raised' = IF raised THEN rate_raised + 1 ELSE rate_raised
          /\ like_pc' = after_rate_song(raised)
    /\ UNCHANGED <<video_id, changed, count, initial_track_count, track_count,
                   get_tries, get_delay, read_log, printed>>

\* track_count = self._get_liked_songs_count(), one try of it, then
\* changed = ...; count += 1 and the while test.
LikeReread ==
    /\ like_pc = "reread"
    /\ \E a \in CountAnswers :
          IF a.raises THEN GetCountRaises
          ELSE /\ track_count' = a.value
               /\ read_log' = Append(read_log, a.value)
               /\ get_tries' = RETRY_TRIES
               /\ get_delay' = RETRY_DELAY
               /\ changed' = count_changed(a.value, initial_track_count)
               /\ count' = count + 1
               /\ LoopTest(changed', count')
               /\ UNCHANGED <<video_id, initial_track_count, rate_calls,
                              rate_raised>>

(***************************************************************************)
(* like_songs_youtube_music, lines 120-121.                                *)
(***************************************************************************)
\* The longest list of identifiers the model replicates.
MaxIds == 2

\* A mutant of ids_to_like: an identifier None is skipped.
ids_not_none(ids) == SelectSeq(ids, LAMBDA x : x # None)

\* for video_id in video_ids: the list comprehension of line 121 takes every
\* element, None included, in order.
ids_to_like(ids) == ids

\* The call self._like_song_youtube_music(id): the state of a run at its
\* first statement.
StartRun(id) ==
    /\ like_pc' = "baseline"
    /\ video_id' = id
    /\ changed' = FALSE
    /\ count' = 0
    /\ initial_track_count' = 0
    /\ track_count' = 0
    /\ get_tries' = RETRY_TRIES
    /\ get_delay' = RETRY_DELAY
    /\ rate_calls' = 0
    /\ rate_raised' = 0
    /\ read_log' = << >>
    /\ printed' = ""

LikeSongsInit ==
    /\ ls_pc = "call"
    /\ video_ids \in SeqsUpTo({"abc", None}, MaxIds)
    /\ ls_next = 0
    /\ reported = << >>

LikeSongsIdle ==
    /\ ls_pc = "idle"
    /\ video_ids = << >>
    /\ ls_next = 0
    /\ reported = << >>

\* The comprehension takes its first element and calls
\* _like_song_youtube_music with it, or ends at once on an empty input.
LikeSongsCall ==
    /\ ls_pc = "call"
    /\ IF ids_to_like(video_ids) = << >>
       THEN /\ ls_pc' = "returned"
            /\ UNCHANGED <<ls_next, likeVars>>
       ELSE /\ ls_pc' = "running"
            /\ ls_next' = 1
            /\ StartRun(ids_to_like(video_ids)[1])
    /\ UNCHANGED <<video_ids, reported>>

\* A run has returned (after printing LIKED or FAILED): the comprehension
\* takes the next element, or ends after the last one.
LikeSongsNext ==
    /\ ls_pc = "running"
    /\ like_pc = "done"
    /\ reported' = Append(reported, [video_id |-> video_id, printed |-> printed])
    /\ IF ls_next < Len(ids_to_like(video_ids))
       THEN /\ ls_next' = ls_next + 1
            /\ StartRun(ids_to_like(video_ids)[ls_next + 1])
            /\ UNCHANGED ls_pc
       ELSE /\ ls_pc' = "returned"
            /\ UNCHANGED <<ls_next, likeVars>>
    /\ UNCHANGED video_ids

\* A run has raised: the exception leaves the comprehension and
\* like_songs_youtube_music.
LikeSongsRaise ==
    /\ ls_pc = "running"
    /\ like_pc = "raised"
    /\ ls_pc' = "raised"
    /\ UNCHANGED <<video_ids, ls_next, reported, likeVars>>

(***************************************************************************)
(* video_ids_for_tracks, lines 95-118, on ThreadPoolExecutor.              *)
(***************************************************************************)
\* NUM_WORKERS = 32 in the source, scaled down: the partitioner and the pool
\* depend on it only through len(tracks) < n, len(tracks) // n and the number
\* of tasks running at once.
NUM_WORKERS == 2

\* The longest track list the model resolves.
MaxTracks == 4

\* What _video_id_for_track(item) can end with (SpecResolver): for a Track any
\* identifier a result can carry, None, or the exception of the last try; for
\* anything else the AttributeError of the last try.
ResolveOutcomes(item) ==
    IF item.cls # "Track" THEN {Raised("AttributeError")}
    ELSE {Returned(v) : v \in {x \in VideoIdValues : Truthy(x)} \cup {None}}
            \cup {Raised("SearchError")}

\* for track in tracks (line 102): the elements of a list, the fields of a
\* Track (a namedtuple iterates over its fields, which are strings).
Iterate(arg) ==
    IF arg.cls = "Track"
    THEN <<PyStr(arg.title), PyStr(arg.artist), PyStr(arg.album)>>
    ELSE arg.items

\* A mutant of DictKey: an entry per occurrence, not per Track value.
DictKeyByOccurrence(t, pos) == <<t, pos>>

\* The key of a Track in video_id_for_track: the Track value itself (a
\* namedtuple hashes and compares by its fields).  pos is the place of the
\* occurrence in the input list; the key does not depend on it.
DictKey(t, pos) == t

\* A mutant of DictSet: a track without an identifier gets no entry.
DictSetOnlyIdentified(d, key, v) == IF v = None THEN d ELSE (key :> v) @@ d

\* video_id_for_track[key] = v
DictSet(d, key, v) == (key :> v) @@ d

\* The store d[key] = v replaces an identifier by a different one.
Replaces(d, key, v) ==
    key \in DOMAIN d /\ d[key] # v /\ d[key] # None /\ v # None

\* video_id_for_track[key]
DictGet(d, key) == IF key \in DOMAIN d THEN d[key] ELSE "KeyError"

\* The first occurrences of the elements of a sequence, in order.
RECURSIVE Dedupe(_)
Dedupe(seq) ==
    IF seq = << >> THEN << >>
    ELSE LET front == Dedupe(SubSeq(seq, 1, Len(seq) - 1))
             last == seq[Len(seq)]
         IN  IF \E i \in 1..Len(front) : front[i] = last THEN front
             ELSE Append(front, last)

\* A mutant of Chunks: the input is deduplicated before it is partitioned.
ChunksOfDistinct == chunks(Dedupe(tracks), NUM_WORKERS)

\* The chunks of the call, as lines 108 and 110 compute them.
Chunks == chunks(tracks, NUM_WORKERS)

\* The place in the input list of the first element of chunk c.
RECURSIVE Offset(_)
Offset(c) == IF c <= 1 THEN 0 ELSE Offset(c - 1) + Len(Iterate(Chunks[c - 1]))

\* A future and its task: the chunk it was submitted with, its state
\* ("queued", "running", "done", "failed"), the place of the next element of
\* the chunk, how often a worker has started the task, and the place of the
\* element whose resolution raised (0 when none has).
Future(arg) ==
    [arg |-> arg, state |-> "queued", next |-> 1, starts |-> 0, raised_at |-> 0]

Running == {c \in 1..Len(threads) : threads[c].state = "running"}
Queued == {c \in 1..Len(threads) : threads[c].state = "queued"}
Finished(f) == f.state \in {"done", "failed"}
Done == {c \in 1..Len(threads) : threads[c].state = "done"}
Failed == {c \in 1..Len(threads) : threads[c].state = "failed"}

\* A mutant of ExecutorJoined: shutdown(wait=False).
ExecutorNotJoined(fs) == TRUE

\* The with statement's exit, shutdown(wait=True): every submitted task has
\* run to its end.
ExecutorJoined(fs) == \A c \in 1..Len(fs) : Finished(fs[c])

\* A mutant of WorkerFree: no bound on the tasks running at once.
WorkerAlwaysFree(running) == TRUE

\* ThreadPoolExecutor(max_workers=NUM_WORKERS): a queued task starts when
\* fewer than max_workers tasks are running.
WorkerFree(running) == Cardinality(running) < NUM_WORKERS

BatchInit ==
    /\ pc = "submit"
    /\ tracks \in SeqsUpTo(TrackSet, MaxTracks)
    /\ video_id_for_track = << >>
    /\ threads = << >>
    /\ success = << >>
    /\ output = << >>
    /\ overwritten = FALSE
    /\ search_exhausted = FALSE
    /\ retried = FALSE
    /\ searches = 0
    /\ started_after_failure = FALSE

BatchIdle ==
    /\ pc = "idle"
    /\ tracks = << >>
    /\ video_id_for_track = << >>
    /\ threads = << >>
    /\ success = << >>
    /\ output = << >>
    /\ overwritten = FALSE
    /\ search_exhausted = FALSE
    /\ retried = FALSE
    /\ searches = 0
    /\ started_after_failure = FALSE

\* for chunk in chunks(...): threads.append(executor.submit(..., chunk))
Submit ==
    /\ pc = "submit"
    /\ IF Len(threads) < Len(Chunks)
       THEN /\ threads' = Append(threads, Future(Chunks[Len(threads) + 1]))
            /\ pc' = pc
       ELSE /\ pc' = "collect"
            /\ threads' = threads
    /\ UNCHANGED <<tracks, video_id_for_track, success, output, overwritten,
                   search_exhausted, retried, searches, started_after_failure>>

\* A worker thread takes the oldest queued task.
StartTask(c) ==
    /\ c \in Queued
    /\ \A d \in Queued : c <= d
    /\ WorkerFree(Running)
    /\ threads' = [threads EXCEPT ![c].state = "running",
                                   ![c].starts = threads[c].starts + 1]
    /\ started_after_failure' =
          (started_after_failure \/ Failed # {})
    /\ UNCHANGED <<pc, tracks, video_id_for_track, success, output, overwritten,
                   search_exhausted, retried, searches>>

\* A mutant of AfterException: the exception is swallowed and the loop goes
\* on with the next element.
ExceptionSwallowed(f, i, len) ==
    [f EXCEPT !.raised_at = i, !.next = i + 1,
              !.state = IF i + 1 > len THEN "done" ELSE "running"]

\* The future of a task whose resolution of element i raised: nothing in
\* lines 101-105 catches the exception, so it ends the task there and is kept
\* in the future.
AfterException(f, i, len) == [f EXCEPT !.raised_at = i, !.state = "failed"]

\* One iteration of the loop of lines 102-104 in chunk task c:
\*   video_id = self._video_id_for_track(track)
\*   video_id_for_track[track] = video_id
\* and the return of line 105 after the last one.  An exception of
\* _video_id_for_track ends the task and is kept in its future.  The store
\* follows the call in the same thread with the value the call returned, and
\* no thread reads the dict before the pool is joined, so the two lines are
\* one step.  r tells whether a try of the resolution raised before the one
\* that returned: without it the resolution made exactly one search call
\* (once retried holds, r makes no difference to the next state).
TaskResolve(c) ==
    /\ c \in Running
    /\ LET items == Iterate(threads[c].arg)
           i == threads[c].next
       IN  /\ i <= Len(items)
           /\ \E out \in ResolveOutcomes(items[i]),
                 r \in IF retried THEN {TRUE} ELSE BOOLEAN :
                 IF out.raised
                 THEN /\ threads' = [threads EXCEPT
                            ![c] = AfterException(threads[c], i, Len(items))]
                      /\ search_exhausted' =
                            (search_exhausted \/ out.value = "SearchError")
                      /\ r
                      /\ retried' = TRUE
                      /\ searches' = 0
                      /\ UNCHANGED <<video_id_for_track, overwritten>>
                 ELSE /\ video_id_for_track' =
                            DictSet(video_id_for_track,
                                    DictKey(items[i], Offset(c) + i), out.value)
                      /\ overwritten' =
                            (overwritten \/ Replaces(video_id_for_track,
                                    DictKey(items[i], Offset(c) + i), out.value))
                      /\ threads' = [threads EXCEPT
                            ![c].next = i + 1,
                            ![c].state = IF i + 1 > Len(items) THEN "done"
                                         ELSE "running"]
                      /\ retried' = (retried \/ r)
                      /\ searches' = IF retried' THEN 0 ELSE searches + 1
                      /\ UNCHANGED search_exhausted
    /\ UNCHANGED <<pc, tracks, success, output, started_after_failure>>

\* for task in as_completed(threads): success.append(task.result()), lines
\* 115-116, for a future whose task returned.  as_completed yields every
\* finished future once, in no fixed order; the futures yielded so far are
\* Len(success) of the done ones, and which of them is not observable (every
\* result is None).
CollectResult ==
    /\ pc = "collect"
    /\ Len(success) < Cardinality(Done)
    /\ success' = Append(success, None)
    /\ UNCHANGED <<pc, tracks, video_id_for_track, threads, output, overwritten,
                   search_exhausted, retried, searches, started_after_failure>>

\* The same for a future whose task failed: task.result() raises the task's
\* exception, which leaves the loop for the with statement's exit.
CollectFailure ==
    /\ pc = "collect"
    /\ Failed # {}
    /\ pc' = "exiting"
    /\ UNCHANGED <<tracks, video_id_for_track, threads, success, output, overwritten,
                   search_exhausted, retried, searches, started_after_failure>>

\* The loop has yielded every future: the with statement exits and line 118
\* returns the generator.
Return ==
    /\ pc = "collect"
    /\ Len(success) = Len(threads)
    /\ ExecutorJoined(threads)
    /\ pc' = "returned"
    /\ UNCHANGED <<tracks, video_id_for_track, threads, success, output, overwritten,
                   search_exhausted, retried, searches, started_after_failure>>

\* The exception of task.result() leaves video_ids_for_tracks once the with
\* statement's exit has joined the pool.
Raise ==
    /\ pc = "exiting"
    /\ ExecutorJoined(threads)
    /\ pc' = "raised"
    /\ UNCHANGED <<tracks, video_id_for_track, threads, success, output, overwritten,
                   search_exhausted, retried, searches,
                   started_after_failure>>

\* The caller consumes the generator of line 118:
\* (video_id_for_track[track] for track in tracks).
Consume ==
    /\ pc = "returned"
    /\ output' = [i \in 1..Len(tracks) |->
                    DictGet(video_id_for_track, DictKey(tracks[i], i))]
    /\ pc' = "consumed"
    /\ UNCHANGED <<tracks, video_id_for_track, threads, success, overwritten,
                   search_exhausted, retried, searches,
                   started_after_failure>>

\* The call self.video_ids_for_tracks(ts): the state of the call at its
\* first statement, tracks = list(tracks).
BatchCall(ts) ==
    /\ pc' = "submit"
    /\ tracks' = ts
    /\ video_id_for_track' = << >>
    /\ threads' = << >>
    /\ success' = << >>
    /\ output' = << >>
    /\ overwritten' = FALSE
    /\ search_exhausted' = FALSE
    /\ retried' = FALSE
    /\ searches' = 0
    /\ started_after_failure' = FALSE

(***************************************************************************)
(* _create_playlist_youtube_music, lines 83-89, under @retry.              *)
(***************************************************************************)
\* @retry(delay=0.25, backoff=2, tries=5), line 83; the delay and the backoff
\* are those of line 57.
PLAYLIST_TRIES == 5

\* The longest playlist the model creates.
MaxPlaylistTracks == 2

PlaylistInit ==
    /\ pl_pc = "call"
    /\ pl_tracks \in SeqsUpTo(TrackSet, MaxPlaylistTracks)
    /\ pl_tries = PLAYLIST_TRIES
    /\ pl_delay = RETRY_DELAY
    /\ resolutions = 0
    /\ create_calls = 0
    /\ created_with = << >>

PlaylistIdle ==
    /\ pl_pc = "idle"
    /\ pl_tracks = << >>
    /\ pl_tries = PLAYLIST_TRIES
    /\ pl_delay = RETRY_DELAY
    /\ resolutions = 0
    /\ create_calls = 0
    /\ created_with = << >>

\* A try of the decorated function starts: the arguments of create_playlist
\* are evaluated, and with them the call of video_ids_for_tracks of line 88.
PlaylistAttempt ==
    /\ pl_pc = "call"
    /\ pl_pc' = "resolving"
    /\ resolutions' = resolutions + 1
    /\ BatchCall(pl_tracks)
    /\ UNCHANGED <<pl_tracks, pl_tries, pl_delay, create_calls, created_with>>

\* The try raised: the retry wrapper counts it, gives up when no try is left
\* and otherwise sleeps and calls the whole function again.
PlaylistTryRaised ==
    /\ pl_tries' = pl_tries - 1
    /\ pl_pc' = IF retry_gives_up(pl_tries) THEN "raised" ELSE "call"
    /\ pl_delay' = IF retry_gives_up(pl_tries) THEN pl_delay
                   ELSE pl_delay * RETRY_BACKOFF

\* list(...) has consumed the generator: create_playlist is called with the
\* list as video_ids, unfiltered, and returns or raises.
PlaylistCreate ==
    /\ pl_pc = "resolving"
    /\ pc = "consumed"
    /\ create_calls' = create_calls + 1
    /\ created_with' = output
    /\ \E raised \in BOOLEAN :
          IF raised THEN PlaylistTryRaised
          ELSE /\ pl_pc' = "returned"
               /\ UNCHANGED <<pl_tries, pl_delay>>
    /\ UNCHANGED <<pl_tracks, resolutions, batchVars>>

\* video_ids_for_tracks raised inside the try: the exception is one of the
\* decorated function, and the retry wrapper handles it like any other.
PlaylistResolutionRaised ==
    /\ pl_pc = "resolving"
    /\ pc = "raised"
    /\ PlaylistTryRaised
    /\ UNCHANGED <<pl_tracks, resolutions, create_calls, created_with,
                   batchVars>>

(***************************************************************************)
(* export_saved_tracks, lines 147-151.                                     *)
(***************************************************************************)
\* The longest list of saved tracks the model exports.
MaxSaved == 2

\* liked_tracks.reverse()
reverse(seq) == [i \in 1..Len(seq) |-> seq[Len(seq) + 1 - i]]

ExportInit ==
    /\ ex_pc = "call"
    /\ saved \in SeqsUpTo(TrackSet, MaxSaved)

ExportIdle ==
    /\ ex_pc = "idle"
    /\ saved = << >>

\* Lines 148-150: the saved tracks are listed, the list is reversed and
\* video_ids_for_tracks is called with it.
ExportCall ==
    /\ ex_pc = "call"
    /\ ex_pc' = "resolving"
    /\ BatchCall(reverse(saved))
    /\ UNCHANGED saved

\* Line 151: like_songs_youtube_music is called with the generator that
\* video_ids_for_tracks returned.  The comprehension of line 121 draws the
\* identifiers from it one by one; the dict it reads does not change any
\* more, so what it yields is what Consume has put into output.
ExportLikeSongs ==
    /\ ex_pc = "resolving"
    /\ pc = "consumed"
    /\ ex_pc' = "liking"
    /\ ls_pc' = "call"
    /\ video_ids' = output
    /\ ls_next' = 0
    /\ reported' = << >>
    /\ UNCHANGED saved

\* video_ids_for_tracks raised: so does export_saved_tracks.
ExportResolutionRaised ==
    /\ ex_pc = "resolving"
    /\ pc = "raised"
    /\ ex_pc' = "raised"
    /\ UNCHANGED saved

\* like_songs_youtube_music has returned or raised: so does
\* export_saved_tracks.
ExportEnd ==
    /\ ex_pc = "liking"
    /\ ls_pc \in {"returned", "raised"}
    /\ ex_pc' = ls_pc
    /\ UNCHANGED saved

(***************************************************************************)
(* The specifications.                                                     *)
(***************************************************************************)
\* No call of like_songs_youtube_music, _create_playlist_youtube_music or
\* export_saved_tracks is going on.
CallsIdle == LikeSongsIdle /\ PlaylistIdle /\ ExportIdle

InitChunks == ChunksInit /\ ResolverIdle /\ LikeIdle /\ BatchIdle /\ CallsIdle

NextChunks == ChunksCall /\ UNCHANGED <<resVars, likeVars, batchVars, callVars>>

SpecChunks == InitChunks /\ [][NextChunks]_vars

InitResolver == ChunksIdle /\ ResolverInit /\ LikeIdle /\ BatchIdle /\ CallsIdle

NextResolver == ResolverAttempt /\ UNCHANGED <<chunksVars, likeVars, batchVars, callVars>>

SpecResolver == InitResolver /\ [][NextResolver]_vars

InitLike == ChunksIdle /\ ResolverIdle /\ LikeInit /\ BatchIdle /\ CallsIdle

NextLike ==
    \/ LikeReadBaseline /\ UNCHANGED <<chunksVars, resVars, batchVars, callVars>>
    \/ LikeRateSong /\ UNCHANGED <<chunksVars, resVars, batchVars, callVars>>
    \/ LikeReread /\ UNCHANGED <<chunksVars, resVars, batchVars, callVars>>

SpecLike == InitLike /\ [][NextLike]_vars

Init == ChunksIdle /\ ResolverIdle /\ LikeIdle /\ BatchInit /\ CallsIdle

Next ==
    \/ Submit /\ UNCHANGED <<chunksVars, resVars, likeVars, callVars>>
    \/ \E c \in 1..Len(threads) : StartTask(c) /\ UNCHANGED <<chunksVars, resVars, likeVars, callVars>>
    \/ \E c \in 1..Len(threads) : TaskResolve(c) /\ UNCHANGED <<chunksVars, resVars, likeVars, callVars>>
    \/ CollectResult /\ UNCHANGED <<chunksVars, resVars, likeVars, callVars>>
    \/ CollectFailure /\ UNCHANGED <<chunksVars, resVars, likeVars, callVars>>
    \/ Return /\ UNCHANGED <<chunksVars, resVars, likeVars, callVars>>
    \/ Raise /\ UNCHANGED <<chunksVars, resVars, likeVars, callVars>>
    \/ Consume /\ UNCHANGED <<chunksVars, resVars, likeVars, callVars>>

Spec == Init /\ [][Next]_vars

InitLikeSongs ==
    /\ ChunksIdle /\ ResolverIdle /\ LikeIdle /\ BatchIdle
    /\ LikeSongsInit /\ PlaylistIdle /\ ExportIdle

NextLikeSongs ==
    \/ LikeSongsCall /\ UNCHANGED <<chunksVars, resVars, batchVars, plVars, exVars>>
    \/ LikeReadBaseline /\ UNCHANGED <<chunksVars, resVars, batchVars, callVars>>
    \/ LikeRateSong /\ UNCHANGED <<chunksVars, resVars, batchVars, callVars>>
    \/ LikeReread /\ UNCHANGED <<chunksVars, resVars, batchVars, callVars>>
    \/ LikeSongsNext /\ UNCHANGED <<chunksVars, resVars, batchVars, plVars, exVars>>
    \/ LikeSongsRaise /\ UNCHANGED <<chunksVars, resVars, batchVars, plVars, exVars>>

SpecLikeSongs == InitLikeSongs /\ [][NextLikeSongs]_vars

\* The call runs in one thread, every remote call and every sleep of the
\* retry wrapper ends: a step that can be taken is taken.
FairLikeSongs == SpecLikeSongs /\ WF_vars(NextLikeSongs)

InitPlaylist ==
    /\ ChunksIdle /\ ResolverIdle /\ LikeIdle /\ BatchIdle
    /\ LikeSongsIdle /\ PlaylistInit /\ ExportIdle

NextPlaylist ==
    \/ PlaylistAttempt /\ UNCHANGED <<chunksVars, resVars, likeVars, lsVars, exVars>>
    \/ Submit /\ UNCHANGED <<chunksVars, resVars, likeVars, callVars>>
    \/ \E c \in 1..Len(threads) : StartTask(c) /\ UNCHANGED <<chunksVars, resVars, likeVars, callVars>>
    \/ \E c \in 1..Len(threads) : TaskResolve(c) /\ UNCHANGED <<chunksVars, resVars, likeVars, callVars>>
    \/ CollectResult /\ UNCHANGED <<chunksVars, resVars, likeVars, callVars>>
    \/ CollectFailure /\ UNCHANGED <<chunksVars, resVars, likeVars, callVars>>
    \/ Return /\ UNCHANGED <<chunksVars, resVars, likeVars, callVars>>
    \/ Raise /\ UNCHANGED <<chunksVars, resVars, likeVars, callVars>>
    \/ Consume /\ UNCHANGED <<chunksVars, resVars, likeVars, callVars>>
    \/ PlaylistCreate /\ UNCHANGED <<chunksVars, resVars, likeVars, lsVars, exVars>>
    \/ PlaylistResolutionRaised /\ UNCHANGED <<chunksVars, resVars, likeVars, lsVars, exVars>>

SpecPlaylist == InitPlaylist /\ [][NextPlaylist]_vars

InitExport ==
    /\ ChunksIdle /\ ResolverIdle /\ LikeIdle /\ BatchIdle
    /\ LikeSongsIdle /\ PlaylistIdle /\ ExportInit

NextExport ==
    \/ ExportCall /\ UNCHANGED <<chunksVars, resVars, likeVars, lsVars, plVars>>
    \/ Submit /\ UNCHANGED <<chunksVars, resVars, likeVars, callVars>>
    \/ \E c \in 1..Len(threads) : StartTask(c) /\ UNCHANGED <<chunksVars, resVars, likeVars, callVars>>
    \/ \E c \in 1..Len(threads) : TaskResolve(c) /\ UNCHANGED <<chunksVars, resVars, likeVars, callVars>>
    \/ CollectResult /\ UNCHANGED <<chunksVars, resVars, likeVars, callVars>>
    \/ CollectFailure /\ UNCHANGED <<chunksVars, resVars, likeVars, callVars>>
    \/ Return /\ UNCHANGED <<chunksVars, resVars, likeVars, callVars>>
    \/ Raise /\ UNCHANGED <<chunksVars, resVars, likeVars, callVars>>
    \/ Consume /\ UNCHANGED <<chunksVars, resVars, likeVars, callVars>>
    \/ ExportResolutionRaised /\ UNCHANGED <<chunksVars, resVars, likeVars, batchVars, lsVars, plVars>>
    \/ ExportLikeSongs /\ UNCHANGED <<chunksVars, resVars, likeVars, batchVars, plVars>>
    \/ LikeSongsCall /\ UNCHANGED <<chunksVars, resVars, batchVars, plVars, exVars>>
    \/ LikeReadBaseline /\ UNCHANGED <<chunksVars, resVars, batchVars, callVars>>
    \/ LikeRateSong /\ UNCHANGED <<chunksVars, resVars, batchVars, callVars>>
    \/ LikeReread /\ UNCHANGED <<chunksVars, resVars, batchVars, callVars>>
    \/ LikeSongsNext /\ UNCHANGED <<chunksVars, resVars, batchVars, plVars, exVars>>
    \/ LikeSongsRaise /\ UNCHANGED <<chunksVars, resVars, batchVars, plVars, exVars>>
    \/ ExportEnd /\ UNCHANGED <<chunksVars, resVars, likeVars, batchVars, lsVars, plVars>>

SpecExport == InitExport /\ [][NextExport]_vars

(***************************************************************************)
(* The claims.                                                             *)
(***************************************************************************)
\* C1: when no search uses up its retries, video_ids_for_tracks returns, and
\* what it returns has the length of the input and holds at each place the
\* identifier recorded for the track of that place.
C1_OutputMatchesInput ==
    /\ pc = "raised" => search_exhausted
    /\ pc = "consumed" =>
          /\ Len(output) = Len(tracks)
          /\ \A i \in 1..Len(tracks) :
                /\ tracks[i] \in DOMAIN video_id_for_track
                /\ output[i] = video_id_for_track[tracks[i]]

\* C2: two places of the input that hold the same Track get the same
\* identifier in the output.
C2_DuplicatesAgree ==
    pc = "consumed" =>
        \A i, j \in 1..Len(tracks) :
            tracks[i] = tracks[j] => output[i] = output[j]

\* The chunk of the place i of the input, for len(tracks) >= NUM_WORKERS.
ChunkOf(i) == ((i - 1) \div (Len(tracks) \div NUM_WORKERS)) + 1

\* Every track in a chunk of its own, the same Track in two of them, resolved
\* to two different identifiers (the later store replaced the earlier one),
\* and one identifier for both in the output.
C2_Witness ==
    /\ pc = "consumed"
    /\ \E i, j \in 1..Len(tracks) :
          /\ tracks[i] = tracks[j]
          /\ ChunkOf(i) # ChunkOf(j)
          /\ output[i] = output[j]
    /\ \A i, j \in 1..Len(tracks) : i # j => ChunkOf(i) # ChunkOf(j)
    /\ overwritten

\* C3: once a chunk task has failed the call never returns, and when it
\* raises every chunk has been submitted and every task has ended: each one
\* that did not fail itself has resolved all the tracks of its chunk.
C3_RaisesAfterSiblingsEnd ==
    /\ (\E c \in 1..Len(threads) : threads[c].state = "failed")
          => pc \notin {"returned", "consumed"}
    /\ pc = "raised" =>
          /\ Len(threads) = Len(Chunks)
          /\ \E c \in 1..Len(threads) : threads[c].state = "failed"
          /\ \A c \in 1..Len(threads) :
                /\ Finished(threads[c])
                /\ threads[c].state # "failed"
                      => threads[c].next = Len(Iterate(threads[c].arg)) + 1

\* A search used up its retries, a task that was still queued then ran to
\* its end afterwards, and the call raised.
C3_Witness ==
    /\ pc = "raised"
    /\ search_exhausted
    /\ started_after_failure
    /\ \E c \in 1..Len(threads) :
          /\ threads[c].state = "done"
          /\ threads[c].next = Len(Iterate(threads[c].arg)) + 1

\* The values read after the baseline, in order.
Rereads == Tail(read_log)

\* C4: the baseline is the first value read, read before the first write and
\* kept; when the k-th re-read is the first that differs from it (k in
\* 1..5), the run has ended LIKED with exactly k writes and k + 1 reads.
C4_LikedAtFirstChange ==
    /\ rate_calls >= 1 => Len(read_log) >= 1
    /\ Len(read_log) >= 1 => initial_track_count = read_log[1]
    /\ \A k \in 1..max_retries :
          ( /\ Len(read_log) >= k + 1
            /\ Rereads[k] # read_log[1]
            /\ \A m \in 1..(k - 1) : Rereads[m] = read_log[1] )
          => /\ like_pc = "done"
             /\ printed = "LIKED"
             /\ rate_calls = k
             /\ Len(read_log) = k + 1

\* The counter reads 10, 10, 11: LIKED after the second write.
C4_Witness ==
    /\ read_log = <<10, 10, 11>>
    /\ like_pc = "done"
    /\ printed = "LIKED"
    /\ rate_calls = 2

\* C5: never more than 5 writes; a run all of whose re-reads equal the
\* baseline ends FAILED after exactly 5 writes and 6 reads, and FAILED is
\* printed in no other case.
C5_FailedAfterFiveWrites ==
    /\ rate_calls <= 5
    /\ (like_pc = "done" /\ \A m \in 1..Len(Rereads) : Rereads[m] = read_log[1])
          => printed = "FAILED" /\ rate_calls = 5 /\ Len(read_log) = 6
    /\ printed = "FAILED"
          => /\ rate_calls = 5
             /\ Len(read_log) = 6
             /\ \A m \in 1..Len(Rereads) : Rereads[m] = read_log[1]

\* Six equal reads, five writes none of which raised, FAILED.
C5_Witness ==
    /\ like_pc = "done"
    /\ printed = "FAILED"
    /\ rate_calls = 5
    /\ rate_raised = 0
    /\ Len(read_log) = 6

\* C6: an exception of rate_song never leaves the function (only a counter
\* read that used up its tries does); every write, raising or not, is
\* followed by a re-read and counts as an attempt; and what is printed is
\* decided by the last re-read against the baseline.
C6_WriteErrorIsNotFatal ==
    /\ like_pc = "raised" => get_tries = 0
    /\ like_pc = "reread" => Len(read_log) = rate_calls /\ count = rate_calls - 1
    /\ like_pc \in {"write", "done"}
          => Len(read_log) = rate_calls + 1 /\ count = rate_calls
    /\ like_pc = "done"
          => printed = IF read_log[Len(read_log)] # read_log[1] THEN "LIKED"
                       ELSE "FAILED"

\* Five writes that all raised and a counter that never changed: FAILED.
C6_Witness ==
    /\ like_pc = "done"
    /\ rate_raised = 5
    /\ printed = "FAILED"
    /\ Len(read_log) = 6

\* C7: a search that answers ends the call at once: after k failed searches
\* and one that answered, the call has returned what was selected from that
\* answer after k + 1 searches; 20 failed searches end the call with the
\* failure after exactly 20 searches, and there never is a 21st.
C7_RetryCounts ==
    track.cls = "Track" =>
        /\ search_calls <= 20
        /\ search_failed = 20 => res_pc = "raised" /\ search_calls = 20
        /\ search_ok >= 1
              => /\ res_pc = "returned"
                 /\ search_calls = search_failed + 1
                 /\ res_ret = select_video_id(results).value

\* The identifier of the first result, in list order, that carries a
\* non-empty one; None when there is none.
FirstIdentifier(rs) ==
    LET carrying == {i \in 1..Len(rs) : rs[i].has /\ Truthy(rs[i].videoId)}
    IN  IF carrying = {} THEN None
        ELSE rs[CHOOSE i \in carrying : \A j \in carrying : i <= j].videoId

\* C8: when the first search answers, whatever its result list, the call has
\* returned after that single search, with the identifier of the first result
\* that carries a non-empty one, or None.
C8_FirstIdentifierOrNone ==
    (track.cls = "Track" /\ search_ok >= 1 /\ search_failed = 0)
        => /\ res_pc = "returned"
           /\ search_calls = 1
           /\ res_ret = FirstIdentifier(results)

RECURSIVE Concat(_)
Concat(cs) == IF cs = << >> THEN << >> ELSE Head(cs).items \o Concat(Tail(cs))

\* C9: for len(lst) >= n > 0, chunks(lst, n) is a sequence of non-empty
\* contiguous slices of lst, each starting where the previous one ended, whose
\* concatenation is lst.
C9_ChunksCoverInput ==
    (chunks_pc = "done" /\ Len(lst) >= n) =>
        /\ Concat(chunks_ret) = lst
        /\ \A c \in 1..Len(chunks_ret) :
              /\ chunks_ret[c].cls = "list"
              /\ Len(chunks_ret[c].items) > 0
              /\ LET start == Len(Concat(SubSeq(chunks_ret, 1, c - 1)))
                 IN  chunks_ret[c].items =
                        SubSeq(lst, start + 1, start + Len(chunks_ret[c].items))

\* A partition with a remainder: more than one chunk and a shorter last one.
C9_Witness ==
    /\ chunks_pc = "done"
    /\ Len(lst) >= n
    /\ Len(chunks_ret) > 1
    /\ Len(chunks_ret[Len(chunks_ret)].items) < Len(chunks_ret[1].items)
    /\ Concat(chunks_ret) = lst

\* C10: for len(lst) >= n > 0, chunks(lst, n) has at most n chunks, each but
\* the last of len(lst) // n elements, the last one holding the remainder.
C10_AtMostNChunks ==
    (chunks_pc = "done" /\ Len(lst) >= n) =>
        /\ Len(chunks_ret) <= n
        /\ \A c \in 1..(Len(chunks_ret) - 1) :
              Len(chunks_ret[c].items) = Len(lst) \div n
        /\ Len(chunks_ret[Len(chunks_ret)].items)
              = Len(lst) - (Len(chunks_ret) - 1) * (Len(lst) \div n)

\* C11: for 0 < len(tracks) < NUM_WORKERS, video_ids_for_tracks submits one
\* chunk task, whose chunk is the whole input list; and whatever the length,
\* what a chunk task is handed is a list of Tracks, never a single Track.
C11_SingleChunkBelowWorkers ==
    /\ \A c \in 1..Len(threads) : threads[c].arg.cls = "list"
    /\ (Len(tracks) > 0 /\ Len(tracks) < NUM_WORKERS /\ pc # "submit") =>
          /\ Len(threads) = 1
          /\ threads[1].arg = PyList(tracks)

\* The input holds the same Track at two places.
HasDuplicate == \E i, j \in 1..Len(tracks) : i # j /\ tracks[i] = tracks[j]

\* The Tracks of the input.
DistinctTracks == {tracks[i] : i \in 1..Len(tracks)}

\* C14 as stated: when the input holds a duplicated Track and no search
\* fails, a call that returns has made fewer search calls than the input has
\* tracks.
C14_FewerSearchesThanTracks ==
    (pc \in {"returned", "consumed"} /\ ~retried /\ HasDuplicate)
        => searches < Len(tracks)

\* C14, amended: when no try of a resolution raises, a call that returns has
\* made exactly one search call for each place of the input, duplicated
\* tracks included; the duplicates share only their entry of the mapping,
\* which has one entry for each distinct Track.
C14_OneSearchPerOccurrence ==
    pc \in {"returned", "consumed"} =>
        /\ ~retried => searches = Len(tracks)
        /\ Cardinality(DOMAIN video_id_for_track) = Cardinality(DistinctTracks)

\* A returned call on an input with a duplicated Track, every search answered
\* at once: as many searches as tracks, fewer entries than tracks.
C14_Witness ==
    /\ pc = "consumed"
    /\ ~retried
    /\ HasDuplicate
    /\ searches = Len(tracks)
    /\ Cardinality(DOMAIN video_id_for_track) < Len(tracks)

\* C17: at most NUM_WORKERS chunk tasks are running at once, a task is started
\* at most once (it is queued exactly until its one start), and when the call
\* ends, returning or raising, every submitted task has been started once.
C17_AtMostNumWorkersRunning ==
    /\ Cardinality(Running) <= NUM_WORKERS
    /\ \A c \in 1..Len(threads) :
          /\ threads[c].starts <= 1
          /\ threads[c].state = "queued" <=> threads[c].starts = 0
    /\ pc \in {"returned", "consumed", "raised"} =>
          \A c \in 1..Len(threads) : threads[c].starts = 1

\* More chunks than workers: NUM_WORKERS tasks running, another one waiting
\* in the queue.
C17_Witness ==
    /\ Cardinality(Running) = NUM_WORKERS
    /\ Queued # {}
    /\ Len(threads) > NUM_WORKERS

\* C18: the mapping is read only after every chunk task has ended; when a call
\* with len(tracks) >= NUM_WORKERS has returned, the keys of the mapping are
\* the distinct Tracks of the input, and no lookup of the returned generator
\* misses its key.
C18_MappingReadAfterJoin ==
    /\ output # << >> => pc = "consumed"
    /\ pc \in {"returned", "consumed"} =>
          /\ ExecutorJoined(threads)
          /\ Len(threads) = Len(Chunks)
          /\ Len(tracks) >= NUM_WORKERS
                => DOMAIN video_id_for_track = DistinctTracks
    /\ pc = "consumed" =>
          /\ Len(output) = Len(tracks)
          /\ \A i \in 1..Len(output) : output[i] # "KeyError"

\* A returned and consumed call with more chunks than workers, two distinct
\* Tracks and a track without an identifier.
C18_Witness ==
    /\ pc = "consumed"
    /\ Len(threads) > NUM_WORKERS
    /\ Cardinality(DistinctTracks) > 1
    /\ \E i \in 1..Len(output) : output[i] = None
    /\ \A i \in 1..Len(output) : output[i] # "KeyError"

\* C19: a chunk task resolves the elements of its chunk one after the other;
\* when the resolution of the element at place j raises, the task has ended
\* there: it stays failed with j as the place it reached, so that no later
\* element is searched or stored by it, and the entries of the elements
\* before j are in the mapping.
C19_TaskStopsAtFailure ==
    \A c \in 1..Len(threads) :
        LET f == threads[c]
            items == Iterate(f.arg)
        IN  /\ f.next <= Len(items) + 1
            /\ f.state = "failed" => f.raised_at # 0
            /\ f.raised_at # 0 =>
                  /\ f.state = "failed"
                  /\ f.next = f.raised_at
                  /\ \A i \in 1..(f.raised_at - 1) :
                        DictKey(items[i], Offset(c) + i)
                            \in DOMAIN video_id_for_track

\* Two chunks of two tracks: one task failed at its second track, with the
\* entry of its first one kept, the other at its first track, its second one
\* never resolved.
C19_Witness ==
    /\ pc = "raised"
    /\ \E c, d \in 1..Len(threads) :
          /\ threads[c].arg.cls = "list"
          /\ threads[c].raised_at = 2
          /\ threads[c].arg.items[1] \in DOMAIN video_id_for_track
          /\ threads[d].arg.cls = "list"
          /\ Len(threads[d].arg.items) = 2
          /\ threads[d].raised_at = 1
          /\ threads[d].next = 1
          /\ threads[d].arg.items[2] \notin DOMAIN video_id_for_track

\* C16: like_songs_youtube_music gives every identifier of its input, None
\* included, one run in input order, each ended run having printed exactly
\* one of LIKED and FAILED; a FAILED run is followed by the run of the next
\* identifier, and only a counter read that uses up its retries ends the
\* call before the last identifier.
C16_EveryIdentifierOneRun ==
    /\ Len(reported) <= Len(video_ids)
    /\ \A k \in 1..Len(reported) :
          /\ reported[k].video_id = video_ids[k]
          /\ reported[k].printed \in {"LIKED", "FAILED"}
    /\ ls_pc = "running" =>
          /\ ls_next = Len(reported) + 1
          /\ ls_next <= Len(video_ids)
          /\ video_id = video_ids[ls_next]
    /\ ls_pc = "returned" => Len(reported) = Len(video_ids)
    /\ ls_pc = "raised" => (like_pc = "raised" /\ get_tries = 0)

\* The run of None ended FAILED after five writes, the run of the identifier
\* after it ended LIKED, and the call returned.
C16_Witness ==
    /\ ls_pc = "returned"
    /\ Len(reported) = 2
    /\ reported[1] = [video_id |-> None, printed |-> "FAILED"]
    /\ reported[2] = [video_id |-> "abc", printed |-> "LIKED"]

\* The state of a run of _like_song_youtube_music is within its bounds: at
\* most max_retries writes, at most max_retries + 1 counter reads that
\* returned, each read with at most RETRY_TRIES tries; it has printed one of
\* LIKED and FAILED exactly when it has returned, and it has raised only with
\* the tries of a counter read used up.
RunBounded ==
    /\ rate_calls <= max_retries
    /\ Len(read_log) <= max_retries + 1
    /\ count <= max_retries
    /\ get_tries \in 0..RETRY_TRIES
    /\ like_pc = "done" <=> printed \in {"LIKED", "FAILED"}
    /\ like_pc # "done" => printed = ""
    /\ like_pc = "raised" <=> get_tries = 0

\* Once a run has raised, nothing more is done: no further write or read, no
\* line printed, no run for a later identifier.
RaisedIsFinal ==
    like_pc = "raised" => UNCHANGED <<likeVars, video_ids, ls_next, reported>>

\* C20: every run of _like_song_youtube_music ends, after at most 5 writes
\* and 6 counter reads of at most 20 tries each, as LIKED, as FAILED or by
\* raising; it raises only when one counter read has failed 20 times in a
\* row, and then it prints neither line and the later identifiers of
\* like_songs_youtube_music get no run: the call ends too.
C20_RunTerminates ==
    /\ []RunBounded
    /\ [][RaisedIsFinal]_vars
    /\ \A k \in 1..MaxIds :
          [](ls_next = k => <>(like_pc \in {"done", "raised"}))
    /\ <>(ls_pc \in {"returned", "raised"})

\* A run that raised at its fourth counter read, after three writes, leaving
\* a later identifier without a run.
C20_Witness ==
    /\ ls_pc = "raised"
    /\ like_pc = "raised"
    /\ get_tries = 0
    /\ rate_calls = 3
    /\ Len(read_log) = 3
    /\ printed = ""
    /\ ls_next = 1
    /\ Len(video_ids) = 2
    /\ reported = << >>

\* C12: the list of identifiers that _create_playlist_youtube_music hands to
\* create_playlist holds no None.
C12_NoNoneInPlaylist ==
    \A i \in 1..Len(created_with) : created_with[i] # None

\* C13: the five tries of _create_playlist_youtube_music are tries of the
\* creation call only: create_playlist is called at most five times, the
\* batch resolution runs once in a call, whether a creation try fails or the
\* resolution itself raises.
C13_RetryCoversCreationOnly ==
    /\ create_calls <= PLAYLIST_TRIES
    /\ resolutions <= 1

\* C15: export_saved_tracks replicates the saved tracks [t1, ..., tn] one
\* after the other in the order tn, ..., t1: the runs that have ended are
\* those of the identifiers of tn, tn-1, ... in this order, no run starts
\* before the one before it has ended, and unless a search or a counter read
\* uses up its retries the call ends with a run for every saved track.
C15_ReversedSequentialReplication ==
    /\ Len(reported) <= Len(saved)
    /\ \A k \in 1..Len(reported) :
          reported[k].video_id =
              DictGet(video_id_for_track,
                      DictKey(saved[Len(saved) + 1 - k], Len(saved) + 1 - k))
    /\ ls_pc = "running" => ls_next = Len(reported) + 1
    /\ ex_pc = "returned" => Len(reported) = Len(saved)
    /\ ex_pc = "raised" => (search_exhausted \/ like_pc = "raised")
====
